---- MODULE Spec2Model ----
(***************************************************************************)
(* The bitemporal price store of the LuSE quant backend.                   *)
(*                                                                         *)
(* Two tables hold price facts:                                            *)
(*   price_history  (app/models/price_history.py, BitemporalMixin), written *)
(*                  by BitemporalService.correct_price, by the daily       *)
(*                  scraper fetch_luse_prices and by                       *)
(*                  SimplePriceService.insert_price;                       *)
(*   market_prices  (app/core/models.py, MarketPrice), written by          *)
(*                  MarketDataService.ingest_price and by the              *)
(*                  update_luse_prices.py script.                          *)
(* A table is the sequence of its committed rows; a row's primary key is   *)
(* its position.  Each request handler runs in its own database session:   *)
(* what it has read and stamped but not yet committed lives in loc[w].     *)
(* No handler takes a lock or sets an isolation level, so a handler's      *)
(* SELECT and its flush at commit are two separate steps between which     *)
(* other sessions commit.                                                  *)
(*                                                                         *)
(* On top of the store runs the risk pipeline: RiskEngine                  *)
(* (app/services/analytics.py), the Celery task calculate_asset_risk_metrics *)
(* (app/tasks.py) that persists its outcome in table risk_metrics, and the *)
(* analytics endpoints that calculate or read.  SpecRisk explores it; Spec *)
(* explores the store; SpecEngine explores the engine's functions on the   *)
(* arguments they can be given.                                            *)
(***************************************************************************)
EXTENDS Integers, Sequences, FiniteSets, TLC

VARIABLES
    clock,          \* the reading datetime.utcnow() gives
    utc_offset,     \* how far the local time datetime.now() gives is ahead
    price_history,  \* committed rows of table price_history
    market_prices,  \* committed rows of table market_prices
    pc,             \* pc[w]: where worker w stands inside its handler
    loc,            \* loc[w]: the session state of worker w
    risk_metrics,   \* committed rows of table risk_metrics
    risk_calls,     \* the Celery task instances of calculate_asset_risk_metrics
    risk_response,  \* what the last calculating endpoint call answered
    engine          \* the last call of a function of the risk engine: its
                    \* arguments and what it returned or raised

store_vars == <<clock, utc_offset, price_history, market_prices, pc, loc>>
risk_vars == <<risk_metrics, risk_calls, risk_response, engine>>
vars == <<clock, utc_offset, price_history, market_prices, pc, loc,
          risk_metrics, risk_calls, risk_response, engine>>

-----------------------------------------------------------------------------
(* Bounds and domains *)

MaxClock == 2           \* clock readings are 0..MaxClock
MaxRows == 3            \* committed rows of price_history
MaxMarketRows == 2      \* committed rows of market_prices

NULL == -1              \* SQL NULL / Python None in a nullable column

Workers == {"w1", "w2"}         \* concurrent request handlers / sessions
AssetIds == {1}                 \* assets.id
Tickers == {"ZCCM"}             \* securities.ticker

\* what a scraped row or an ingestion request carries
Quotes == {[price |-> 10, volume |-> 5]}
\* what a PriceCorrection request carries (volume NULL: left unspecified)
\* (any float is accepted for either: the request model sets no range)
Corrections == {[close |-> 12, volume |-> NULL], [close |-> 0, volume |-> 0]}

\* The time zone of the process, in ticks east of UTC: datetime.now() reads
\* the local time, datetime.utcnow() the time at UTC.
UtcOffsets == {0, 1}

Times == {t + o : t \in 0..MaxClock, o \in UtcOffsets}
\* The clock counts half days: the business date of a clock reading.
DateOf(t) == t \div 2
Dates == {DateOf(t) : t \in Times}

REAL_PRICES == [t \in Tickers |-> 166]

Idle == [op |-> "none"]

\* The row bounds: a handler that will INSERT starts only when the bound
\* leaves room for its row next to the rows of the handlers under way, so
\* that every handler that starts can commit.
Inserting(states) == Cardinality({w \in Workers : pc[w] \in states})
RoomInHistory ==
    Len(price_history) + Inserting({"correct_stamp", "correct_commit"}) < MaxRows
RoomInMarket ==
    Len(market_prices) + Inserting({"ingest_stamp", "ingest_commit"}) < MaxMarketRows

-----------------------------------------------------------------------------
(* Python / SQL helpers *)

\* datetime.now(): the local time
Now == clock + utc_offset
\* datetime.utcnow()
UtcNow == clock

\* Python's `a or b`: b when a is None or falsy (0, 0.0), else a.
PyOr(a, b) == IF a = NULL \/ a = 0 THEN b ELSE a

\* Query.first() / fetchone() without ORDER BY: any matching row, or None.
\* The set of primary keys the call may return (0 stands for None).
First(matching) == IF matching = {} THEN {0} ELSE matching

\* A table's rows are held in primary-key order: row i has id i.
Ids(table) == 1..Len(table)
\* the autoincrement primary key of the next INSERT
NextId(table) == Len(table) + 1

-----------------------------------------------------------------------------
(* price_history queries: BitemporalService *)

\* (mutant) the lookup that forgets the trade_date filter
CurrentIdsAnyDate(table, a, d) ==
    {i \in Ids(table) :
        /\ table[i].asset_id = a
        /\ table[i].is_current = TRUE}

\* get_current_price: the rows its filter matches
CurrentIds(table, a, d) ==
    {i \in Ids(table) :
        /\ table[i].asset_id = a
        /\ table[i].trade_date = d
        /\ table[i].is_current = TRUE}

\* (mutant) the upper end of the interval taken as closed: >= for >
TxToAfterOrAt(tto, as_of) == tto = NULL \/ tto >= as_of

\* SQL: transaction_to IS NULL OR transaction_to > as_of
TxToAfter(tto, as_of) == tto = NULL \/ tto > as_of

\* get_price_as_of_transaction_time: the rows its filter matches
AsOfTxIds(table, a, d, as_of) ==
    {i \in Ids(table) :
        /\ table[i].asset_id = a
        /\ table[i].trade_date = d
        /\ table[i].transaction_from <= as_of
        /\ TxToAfter(table[i].transaction_to, as_of)}

\* ORDER BY trade_date ... all(): the row lists a query with these matching
\* rows may return, rows of one trade_date in any order
OrderedByTradeDate(table, ids) ==
    {s \in [1..Cardinality(ids) -> ids] :
        /\ \A i, j \in 1..Cardinality(ids) : i < j =>
               /\ s[i] # s[j]
               /\ table[s[i]].trade_date <= table[s[j]].trade_date}

\* get_price_history_range: the rows its filters match; as_of_transaction =
\* NULL is the call without it (current view)
RangeIds(table, a, start_date, end_date, as_of_transaction) ==
    {i \in Ids(table) :
        /\ table[i].asset_id = a
        /\ table[i].trade_date >= start_date
        /\ table[i].trade_date <= end_date
        /\ IF as_of_transaction # NULL
           THEN /\ table[i].transaction_from <= as_of_transaction
                /\ TxToAfter(table[i].transaction_to, as_of_transaction)
           ELSE table[i].is_current = TRUE}

get_price_history_range(a, start_date, end_date, as_of_transaction) ==
    OrderedByTradeDate(price_history,
        RangeIds(price_history, a, start_date, end_date, as_of_transaction))

\* SimplePriceService.get_price_history: every row of the asset in the range
SimpleRangeIds(table, a, start_date, end_date) ==
    {i \in Ids(table) :
        /\ table[i].asset_id = a
        /\ table[i].trade_date >= start_date
        /\ table[i].trade_date <= end_date}

get_price_history(a, start_date, end_date) ==
    OrderedByTradeDate(price_history,
        SimpleRangeIds(price_history, a, start_date, end_date))

\* what the two calls may return (0: None)
get_current_price(a, d) == First(CurrentIds(price_history, a, d))
get_price_as_of_transaction_time(a, d, as_of) ==
    First(AsOfTxIds(price_history, a, d, as_of))

-----------------------------------------------------------------------------
(* market_prices queries: MarketDataService *)

\* the filter of ingest_price's (and update_prices') lookup of the open record
OpenMarketIds(table, t, d) ==
    {i \in Ids(table) :
        /\ table[i].security_ticker = t
        /\ table[i].valid_from = d
        /\ table[i].transaction_to = NULL}

\* get_price_as_of's filter; as_of_time = NULL is the call without as_of_time,
\* now the reading of datetime.now() it then takes.  `if as_of_time:` and
\* `as_of_time or datetime.now()` test for None: a datetime is never falsy.
PriceAsOfIds(table, t, d, as_of_time, now) ==
    {i \in Ids(table) :
        /\ table[i].security_ticker = t
        /\ table[i].valid_from = d
        /\ table[i].transaction_from <= (IF as_of_time = NULL THEN now ELSE as_of_time)
        /\ IF as_of_time # NULL
           THEN table[i].transaction_to = NULL \/ table[i].transaction_to > as_of_time
           ELSE table[i].transaction_to = NULL}

get_price_as_of(t, d, as_of_time) ==
    First(PriceAsOfIds(market_prices, t, d, as_of_time, Now))

-----------------------------------------------------------------------------
(* Initial state: empty tables, every worker idle *)

\* The state after deployment in a time zone among offsets
InitAt(offsets) ==
    /\ clock = 0
    /\ utc_offset \in offsets
    /\ price_history = <<>>
    /\ market_prices = <<>>
    /\ pc = [w \in Workers |-> "idle"]
    /\ loc = [w \in Workers |-> Idle]
    /\ risk_metrics = <<>>
    /\ risk_calls = <<>>
    /\ risk_response = [endpoint |-> "none"]
    /\ engine = [call |-> "none"]

\* a process running at UTC, where datetime.now() and datetime.utcnow() agree
Init == InitAt({0})

\* a process running in any of the time zones
InitZone == InitAt(UtcOffsets)

\* Time passes between two readings of the clock.
Tick ==
    /\ clock < MaxClock
    /\ clock' = clock + 1
    /\ UNCHANGED <<price_history, market_prices, pc, loc, utc_offset, risk_vars>>

-----------------------------------------------------------------------------
(* BitemporalMixin.close_transaction *)

\* (mutant) the close that forgets the helper flag
close_transaction_keeping_flag(row, close_time) ==
    [row EXCEPT !.transaction_to = close_time]

close_transaction(row, close_time) ==
    [row EXCEPT !.transaction_to = close_time, !.is_current = FALSE]

-----------------------------------------------------------------------------
(* fetch_luse_prices: one row of the scraped table, committed on its own *)

NewScrapedRow(id, a, d, q, vfrom, tfrom) ==
    [id |-> id, asset_id |-> a, trade_date |-> d, close_price |-> q.price, volume |-> q.volume,
     valid_from |-> vfrom, valid_to |-> NULL,
     transaction_from |-> tfrom, transaction_to |-> NULL, is_current |-> TRUE]

\* The loop body for one table row (lines 34-76).  The row's datetime.now()
\* readings give trade_date, valid_from and then transaction_from; the clock
\* may advance by a tick before the last of them (adv).  A row failing the validation
\* of line 46 is skipped and changes nothing.
ScrapeRow ==
    \E a \in AssetIds, q \in Quotes, adv \in {0, 1} :
        /\ clock + adv <= MaxClock
        /\ RoomInHistory
        /\ ~(q.price < 0 \/ q.volume < 0)
        /\ price_history' = Append(price_history,
               NewScrapedRow(NextId(price_history), a, DateOf(Now), q,
                             Now, Now + adv))
        /\ clock' = clock + adv
        /\ UNCHANGED <<market_prices, pc, loc, utc_offset, risk_vars>>

-----------------------------------------------------------------------------
(* BitemporalService.correct_price, called by the /price/correct endpoint *)

\* lines 157-163: look the current record up; ValueError when there is none
CorrectRead(w) ==
    \E a \in AssetIds, d \in Dates :
        /\ pc[w] = "idle"
        /\ \E cur \in get_current_price(a, d) :
            IF cur = 0
            THEN /\ pc' = [pc EXCEPT ![w] = "value_error"]
                 /\ loc' = [loc EXCEPT ![w] =
                        [op |-> "correct_price", asset |-> a, date |-> d]]
            ELSE /\ RoomInHistory
                 /\ pc' = [pc EXCEPT ![w] = "correct_stamp"]
                 /\ loc' = [loc EXCEPT ![w] =
                        [op |-> "correct_price", asset |-> a, date |-> d,
                         id |-> cur, current_record |-> price_history[cur],
                         now |-> NULL]]
        /\ UNCHANGED <<clock, price_history, market_prices, utc_offset, risk_vars>>

\* endpoints/bitemporal.py lines 157-158: ValueError becomes HTTP 404
CorrectNotFound(w) ==
    /\ pc[w] = "value_error"
    /\ pc' = [pc EXCEPT ![w] = "idle"]
    /\ loc' = [loc EXCEPT ![w] = Idle]
    /\ UNCHANGED <<clock, price_history, market_prices, utc_offset, risk_vars>>

\* line 165: now = datetime.utcnow()
CorrectStamp(w) ==
    /\ pc[w] = "correct_stamp"
    /\ pc' = [pc EXCEPT ![w] = "correct_commit"]
    /\ loc' = [loc EXCEPT ![w].now = UtcNow]
    /\ UNCHANGED <<clock, price_history, market_prices, utc_offset, risk_vars>>

\* (mutant) the corrected record given a valid time of its own
CorrectedRecordRevalidated(id, l, c) ==
    [id |-> id, asset_id |-> l.asset, trade_date |-> l.date,
     close_price |-> c.close,
     volume |-> PyOr(c.volume, l.current_record.volume),
     valid_from |-> l.now + 1,
     valid_to |-> l.current_record.valid_to,
     transaction_from |-> l.now, transaction_to |-> NULL, is_current |-> TRUE]

\* lines 171-185: the corrected record, c the request's corrected_* values
CorrectedRecord(id, l, c) ==
    [id |-> id, asset_id |-> l.asset, trade_date |-> l.date,
     close_price |-> c.close,
     volume |-> PyOr(c.volume, l.current_record.volume),
     valid_from |-> l.current_record.valid_from,
     valid_to |-> l.current_record.valid_to,
     transaction_from |-> l.now, transaction_to |-> NULL, is_current |-> TRUE]

\* (mutant) the close flushed on its own, the corrected record never added
CorrectFlushCloseOnly(table, l, c) ==
    [table EXCEPT ![l.id] = close_transaction(table[l.id], l.now)]

\* (mutant) the superseded record deleted instead of closed
CorrectFlushDeleting(table, l, c) ==
    Append(SelectSeq(table, LAMBDA r : r.id # l.id),
           CorrectedRecord(NextId(table), l, c))

\* The flush at commit: UPDATE price_history SET transaction_to, is_current
\* WHERE id = <the record read>, then INSERT of the corrected record.
CorrectFlush(table, l, c) ==
    Append([table EXCEPT ![l.id] = close_transaction(table[l.id], l.now)],
           CorrectedRecord(NextId(table), l, c))

\* lines 168-191: close, add, commit.  The request's corrected_* values are
\* first used here, so they are drawn here.
CorrectCommit(w) ==
    \E c \in Corrections :
        /\ pc[w] = "correct_commit"
        /\ Len(price_history) < MaxRows
        /\ price_history' = CorrectFlush(price_history, loc[w], c)
        /\ pc' = [pc EXCEPT ![w] = "idle"]
        /\ loc' = [loc EXCEPT ![w] = Idle]
        /\ UNCHANGED <<clock, market_prices, utc_offset, risk_vars>>

\* An exception between the lookup and the end of commit (a dropped
\* connection, a refused flush): nothing was flushed before commit
\* (autoflush=False) and a refused commit is rolled back, so the pending close
\* and the pending record never reach the table.
CorrectFail(w) ==
    /\ pc[w] \in {"correct_stamp", "correct_commit"}
    /\ pc' = [pc EXCEPT ![w] = "failed"]
    /\ loc' = [loc EXCEPT ![w] = [op |-> "correct_price",
                                  asset |-> loc[w].asset, date |-> loc[w].date]]
    /\ UNCHANGED <<clock, price_history, market_prices, utc_offset, risk_vars>>

\* get_db's finally: db.close() discards whatever the session still holds
SessionClose(w) ==
    /\ pc[w] = "failed"
    /\ pc' = [pc EXCEPT ![w] = "idle"]
    /\ loc' = [loc EXCEPT ![w] = Idle]
    /\ UNCHANGED <<clock, price_history, market_prices, utc_offset, risk_vars>>

-----------------------------------------------------------------------------
(* GET /audit/corrections/{asset_id} *)

\* endpoints/bitemporal.py lines 172-173: service.get_corrections_audit(...).
\* BitemporalService (bitemporal_service.py lines 20-191) defines no such
\* method, so the attribute lookup raises AttributeError before any query
\* runs and the request ends as HTTP 500 without a list of entries.
GetCorrectionsAudit(w) ==
    \E a \in AssetIds :
        /\ pc[w] = "idle"
        /\ pc' = [pc EXCEPT ![w] = "failed"]
        /\ loc' = [loc EXCEPT ![w] =
               [op |-> "get_corrections_audit", asset |-> a,
                response |-> [status |-> 500, entries |-> <<>>]]]
        /\ UNCHANGED <<clock, price_history, market_prices, utc_offset, risk_vars>>

-----------------------------------------------------------------------------
(* SimplePriceService.insert_price *)

\* PriceHistory(asset_id, trade_date, close_price, volume): valid_from is left
\* unset, and the column is NOT NULL without a default (base.py line 19), so
\* the INSERT is refused at commit and no row is stored.
InsertPrice == UNCHANGED vars

-----------------------------------------------------------------------------
(* MarketDataService.ingest_price *)

\* lines 32-36: look for the open record of (ticker, valid_date)
IngestRead(w) ==
    \E t \in Tickers, d \in Dates :
        /\ pc[w] = "idle"
        /\ RoomInMarket
        /\ \E existing \in First(OpenMarketIds(market_prices, t, d)) :
            /\ pc' = [pc EXCEPT ![w] = "ingest_stamp"]
            /\ loc' = [loc EXCEPT ![w] =
                   [op |-> "ingest_price", ticker |-> t, date |-> d,
                    id |-> existing, close_at |-> NULL, new_from |-> NULL]]
        /\ UNCHANGED <<clock, price_history, market_prices, utc_offset, risk_vars>>

\* lines 38-51: existing.transaction_to = datetime.now() when there is an
\* existing record, then the new record with transaction_from =
\* datetime.now(); the clock may advance by a tick between the two (adv).
IngestStamp(w) ==
    \E adv \in {0, 1} :
        /\ clock + adv <= MaxClock
        /\ pc[w] = "ingest_stamp"
        /\ pc' = [pc EXCEPT ![w] = "ingest_commit"]
        /\ loc' = [loc EXCEPT ![w].close_at = IF loc[w].id = 0 THEN NULL ELSE Now,
                              ![w].new_from = Now + adv]
        /\ clock' = clock + adv
        /\ UNCHANGED <<price_history, market_prices, utc_offset, risk_vars>>

NewMarketPrice(id, t, d, price, volume, tfrom) ==
    [id |-> id, security_ticker |-> t, price |-> price, volume |-> volume,
     valid_from |-> d, transaction_from |-> tfrom, transaction_to |-> NULL]

\* The flush at commit: UPDATE market_prices SET transaction_to WHERE id =
\* <the record read> when there was one, then INSERT of the new record.
IngestFlush(table, l, q) ==
    Append(IF l.id = 0 THEN table
           ELSE [table EXCEPT ![l.id].transaction_to = l.close_at],
           NewMarketPrice(NextId(table), l.ticker, l.date, q.price, q.volume,
                          l.new_from))

\* line 52: commit.  The request's price and volume reach the store only
\* here, so they are drawn here.
IngestCommit(w) ==
    \E q \in Quotes :
        /\ pc[w] = "ingest_commit"
        /\ Len(market_prices) < MaxMarketRows
        /\ market_prices' = IngestFlush(market_prices, loc[w], q)
        /\ pc' = [pc EXCEPT ![w] = "idle"]
        /\ loc' = [loc EXCEPT ![w] = Idle]
        /\ UNCHANGED <<clock, price_history, utc_offset, risk_vars>>

\* An exception between the lookup and the end of commit: as for
\* correct_price, the session's pending UPDATE and INSERT are discarded.
IngestFail(w) ==
    /\ pc[w] \in {"ingest_stamp", "ingest_commit"}
    /\ pc' = [pc EXCEPT ![w] = "failed"]
    /\ loc' = [loc EXCEPT ![w] = [op |-> "ingest_price",
                                  ticker |-> loc[w].ticker, date |-> loc[w].date]]
    /\ UNCHANGED <<clock, price_history, market_prices, utc_offset, risk_vars>>

-----------------------------------------------------------------------------
(* scripts/update_luse_prices.py: update_prices *)

\* lines 54-85 for one ticker: the tables the loop body may leave
UpdateTicker(table, t, today, now) ==
    {IF existing = 0
     THEN Append(table, NewMarketPrice(NextId(table), t, today, REAL_PRICES[t], 0, now))
     ELSE [table EXCEPT ![existing].price = REAL_PRICES[t],
                        ![existing].transaction_from = now]
     : existing \in First(OpenMarketIds(table, t, today))}

\* lines 53-85: the loop over REAL_PRICES
RECURSIVE UpdateTickers(_, _, _, _)
UpdateTickers(tables, tickers, today, now) ==
    IF tickers = {} THEN tables
    ELSE LET t == CHOOSE x \in tickers : TRUE
         IN UpdateTickers(UNION {UpdateTicker(tb, t, today, now) : tb \in tables},
                          tickers \ {t}, today, now)

\* lines 41-94: one run of the script, one transaction
UpdatePrices ==
    \E table \in UpdateTickers({market_prices}, Tickers, DateOf(Now), Now) :
        /\ Len(table) = Len(market_prices) \/ RoomInMarket
        /\ market_prices' = table
        /\ UNCHANGED <<clock, price_history, pc, loc, utc_offset, risk_vars>>

-----------------------------------------------------------------------------
(* The system *)

\* The two tables share no row, no query and no handler, so the runs are
\* explored one table at a time: a handler of one table starts only while
\* the other table is untouched.
HistoryUntouched ==
    /\ price_history = <<>>
    /\ \A w \in Workers : loc[w].op \notin {"correct_price", "get_corrections_audit"}
MarketUntouched ==
    /\ market_prices = <<>>
    /\ \A w \in Workers : loc[w].op # "ingest_price"

Next ==
    \/ Tick
    \/ InsertPrice
    \/ MarketUntouched /\ ScrapeRow
    \/ MarketUntouched /\ \E w \in Workers : CorrectRead(w)
    \/ \E w \in Workers : CorrectNotFound(w)
    \/ \E w \in Workers : CorrectStamp(w)
    \/ \E w \in Workers : CorrectCommit(w)
    \/ \E w \in Workers : CorrectFail(w)
    \/ \E w \in Workers : SessionClose(w)
    \/ MarketUntouched /\ \E w \in Workers : GetCorrectionsAudit(w)
    \/ HistoryUntouched /\ \E w \in Workers : IngestRead(w)
    \/ \E w \in Workers : IngestStamp(w)
    \/ \E w \in Workers : IngestCommit(w)
    \/ \E w \in Workers : IngestFail(w)
    \/ HistoryUntouched /\ UpdatePrices

Spec == Init /\ [][Next]_vars

\* price_history is the table stamped with both clocks: by the scraper with
\* datetime.now(), by correct_price with datetime.utcnow().  Its handlers in
\* a process of any time zone:
NextZone ==
    \/ Tick
    \/ ScrapeRow
    \/ \E w \in Workers : CorrectRead(w)
    \/ \E w \in Workers : CorrectNotFound(w)
    \/ \E w \in Workers : CorrectStamp(w)
    \/ \E w \in Workers : CorrectCommit(w)
    \/ \E w \in Workers : CorrectFail(w)
    \/ \E w \in Workers : SessionClose(w)

SpecZone == InitZone /\ [][NextZone]_vars

-----------------------------------------------------------------------------
(* The risk pipeline: domains *)

MaxCalls == 2           \* task instances of calculate_asset_risk_metrics queued

BENCHMARK_ID == 1       \* tasks.py: the benchmark asset
RiskAssetIds == {2, 3}  \* the assets analysed against the benchmark
MaxRetries == 2         \* @celery_app.task(bind=True, max_retries=2)
MinPoints == 14         \* _validate_price_data: min_points
MinObservations == 10   \* calculate_risk_metrics_sync: len(asset_returns) < 10

\* What one run of the calculation finds in price_history, as far as the
\* engine's branches can tell: the number of is_current rows of the asset and
\* of the benchmark in the lookback window, the number of aligned weekly
\* returns prepare_returns_data leaves, and whether the benchmark returns
\* have zero variance.
Datasets ==
    [asset_points : {13, 14}, benchmark_points : {13, 14},
     observations : {9, 10}, zero_variance : BOOLEAN]

\* An exception that is not a RiskCalculationError: the database refusing a
\* query or the commit, or any other error of the run.
Faults == {"none", "exception"}

\* What the TimescaleDB path of the hybrid calculation finds: whether the
\* three SQL functions are installed, and the observation_count of the rows
\* calculate_beta_sql and calculate_var_sql return.
TimescaleStates ==
    [installed : BOOLEAN, beta_observations : {9, 10}, var_observations : {9, 10}]

NoResult == [status |-> "none", observation_count |-> 0, error_code |-> ""]

-----------------------------------------------------------------------------
(* RiskEngine.calculate_risk_metrics_sync *)

Raised(code) == [status |-> "failed", observation_count |-> 0, error_code |-> code]

\* (mutant) the bar of calculate_var_95 (5) used for the weekly observations
TooFewObservationsForVaR(n) == n < 5

\* line 457: if len(asset_returns) < 10
TooFewObservations(n) == n < MinObservations

\* (mutant) one point fewer than min_points is let through
TooFewPointsOffByOne(n) == n < MinPoints - 1

\* lines 517 and 524: if len(...) < min_points
TooFewPoints(n) == n < MinPoints

\* lines 485-535, _validate_price_data: the error code of the
\* RiskCalculationError it raises, "" when it returns
validate_price_data(ds) ==
    IF ds.asset_points = 0 THEN "NO_ASSET_DATA"
    ELSE IF ds.benchmark_points = 0 THEN "NO_BENCHMARK_DATA"
    ELSE IF TooFewPoints(ds.asset_points) THEN "INSUFFICIENT_ASSET_DATA"
    ELSE IF TooFewPoints(ds.benchmark_points) THEN "INSUFFICIENT_BENCHMARK_DATA"
    ELSE ""

\* lines 441-483: the RiskMetrics returned, or the RiskCalculationError raised
\* (_validate_price_data, the observation bar, calculate_beta's zero variance)
calculate_risk_metrics_sync(ds) ==
    IF validate_price_data(ds) # "" THEN Raised(validate_price_data(ds))
    ELSE IF TooFewObservations(ds.observations) THEN Raised("INSUFFICIENT_OBSERVATIONS")
    ELSE IF ds.zero_variance THEN Raised("ZERO_VARIANCE")
    ELSE [status |-> "success", observation_count |-> ds.observations,
          error_code |-> ""]

-----------------------------------------------------------------------------
(* app/tasks.py: calculate_asset_risk_metrics *)

\* a row of risk_metrics (lines 163-172 and 191-201)
RiskMetricsHistory(id, a, status, observation_count, error_message, date) ==
    [id |-> id, asset_id |-> a, benchmark_id |-> BENCHMARK_ID,
     calculation_date |-> date, calculation_status |-> status,
     observation_count |-> observation_count, error_message |-> error_message]

\* endpoints/analytics.py lines 141-171 (and tasks.py lines 268-273):
\* calculate_asset_risk_metrics.delay(...) queues a task instance
TriggerRiskCalculation ==
    \E a \in RiskAssetIds :
        /\ Len(risk_calls) < MaxCalls
        /\ risk_response.endpoint = "none"
        /\ risk_calls' = Append(risk_calls,
               [asset_id |-> a, retries |-> 0, state |-> "PENDING"])
        /\ UNCHANGED <<store_vars, risk_metrics, risk_response, engine>>

\* Task.retry(exc=exc, countdown=30) under max_retries: the instance is
\* queued again with request.retries + 1, or, once that would exceed
\* max_retries, exc is raised and the task ends in state FAILURE.
Retry(call) ==
    IF call.retries + 1 > MaxRetries
    THEN [call EXCEPT !.state = "FAILURE"]
    ELSE [call EXCEPT !.state = "RETRY", !.retries = call.retries + 1]

\* lines 148-217: one run of the task body.  The calculation succeeds and a
\* "completed" row is committed; or it raises RiskCalculationError and a
\* "failed" row is committed (beta, VaR and observation_count 0, the error
\* text in error_message), the task returning normally either way; or any
\* other exception, from the engine or from either commit, reaches the outer
\* handler, which stores nothing and calls self.retry.  calculation_date is
\* the reading of datetime.now() the run takes; the clock may have advanced
\* by a tick since the last run (adv), which is followed where a read can
\* tell, for the "completed" rows the read interface orders by date.
CalculateAssetRiskMetrics(i) ==
    \E ds \in Datasets, fault \in Faults, adv \in {0, 1} :
        /\ clock + adv <= MaxClock
        /\ adv = 1 => (fault = "none"
                       /\ calculate_risk_metrics_sync(ds).status = "success")
        /\ clock' = clock + adv
        /\ risk_calls[i].state \in {"PENDING", "RETRY"}
        /\ LET call == risk_calls[i]
               metrics == calculate_risk_metrics_sync(ds)
           IN IF fault = "exception"
              THEN /\ risk_calls' = [risk_calls EXCEPT ![i] = Retry(call)]
                   /\ UNCHANGED risk_metrics
              ELSE /\ risk_metrics' = Append(risk_metrics,
                         IF metrics.status = "success"
                         THEN RiskMetricsHistory(NextId(risk_metrics), call.asset_id,
                                  "completed", metrics.observation_count, "", clock')
                         ELSE RiskMetricsHistory(NextId(risk_metrics), call.asset_id,
                                  "failed", 0, metrics.error_code, clock'))
                   /\ risk_calls' = [risk_calls EXCEPT ![i].state = "SUCCESS"]
        /\ UNCHANGED <<utc_offset, price_history, market_prices, pc, loc, risk_response, engine>>

-----------------------------------------------------------------------------
(* endpoints/analytics.py: the calculating endpoints *)

\* The calculating endpoints neither read nor write risk_metrics and know
\* nothing of the tasks, so their calls are explored from the state without
\* tasks, and tasks from the state without a call.

\* GET /risk/{asset_id}, lines 83-121: get_risk_metrics_sync and nothing
\* else; RiskCalculationError becomes HTTP 400, any other exception HTTP 500
GetAssetRiskMetrics ==
    \E a \in RiskAssetIds, ds \in Datasets, fault \in Faults :
        /\ risk_calls = <<>>
        /\ LET metrics == calculate_risk_metrics_sync(ds)
           IN risk_response' =
                  [endpoint |-> "get_asset_risk_metrics", asset_id |-> a,
                   status_code |-> IF fault = "exception" THEN 500
                                   ELSE IF metrics.status = "success" THEN 200
                                   ELSE 400,
                   result |-> IF fault = "exception" THEN NoResult ELSE metrics]
        /\ UNCHANGED <<store_vars, risk_metrics, risk_calls, engine>>

\* timescale_risk.py lines 288-311: the TimescaleDB path of
\* get_risk_metrics_hybrid.  get_beta_from_db and get_var_from_db raise
\* ValueError below 10 observations; any exception of the path is logged and
\* the Python calculation is used instead ("fallback").
TimescalePath(ts) ==
    IF /\ ts.installed
       /\ ~(ts.beta_observations < 10)
       /\ ~(ts.var_observations < 10)
    THEN [status |-> "success", observation_count |-> ts.beta_observations,
          error_code |-> ""]
    ELSE [status |-> "fallback", observation_count |-> 0, error_code |-> ""]

\* timescale_risk.py lines 267-329
get_risk_metrics_hybrid(ts, ds) ==
    IF TimescalePath(ts).status = "success"
    THEN TimescalePath(ts)
    ELSE calculate_risk_metrics_sync(ds)

\* GET /timescale/risk/{asset_id}, lines 365-413: ValueError becomes HTTP
\* 400, any other exception (RiskCalculationError is one) HTTP 500
GetTimescaleRiskMetrics ==
    \E a \in RiskAssetIds, ts \in TimescaleStates, ds \in Datasets,
       fault \in Faults :
        /\ risk_calls = <<>>
        /\ LET result == get_risk_metrics_hybrid(ts, ds)
           IN risk_response' =
                  [endpoint |-> "get_timescale_risk_metrics", asset_id |-> a,
                   status_code |-> IF fault = "none" /\ result.status = "success"
                                   THEN 200 ELSE 500,
                   result |-> IF fault = "exception" THEN NoResult ELSE result]
        /\ UNCHANGED <<store_vars, risk_metrics, risk_calls, engine>>

-----------------------------------------------------------------------------
(* The risk read interface *)

\* the filter of both reads: the asset's rows with status "completed"
CompletedIds(table, a) ==
    {i \in Ids(table) :
        /\ table[i].asset_id = a
        /\ table[i].calculation_status = "completed"}

\* to_dict() of a row, less the keys that name the row and the asset
to_dict(row) ==
    [calculation_date |-> row.calculation_date,
     observation_count |-> row.observation_count,
     calculation_status |-> row.calculation_status,
     error_message |-> row.error_message]

\* tasks.py lines 289-322 and GET /risk/{asset_id}/latest, lines 207-236:
\* order_by(calculation_date.desc()).first(); the answers the call may give,
\* None / HTTP 404 being the answer without a body
get_latest_risk_metrics(a) ==
    LET ids == CompletedIds(risk_metrics, a)
        newest == {i \in ids : \A j \in ids :
                      risk_metrics[j].calculation_date
                          <= risk_metrics[i].calculation_date}
    IN IF ids = {}
       THEN {[found |-> FALSE, body |-> <<>>]}
       ELSE {[found |-> TRUE, body |-> <<to_dict(risk_metrics[i])>>] : i \in newest}

\* GET /risk/{asset_id}/history, lines 239-265:
\* order_by(calculation_date.desc()).limit(limit).all()
get_risk_metrics_history(a, limit) ==
    LET ids == CompletedIds(risk_metrics, a)
        n == IF Cardinality(ids) < limit THEN Cardinality(ids) ELSE limit
    IN {[count |-> n, metrics |-> [k \in 1..n |-> to_dict(risk_metrics[s[k]])]] :
           s \in {o \in [1..Cardinality(ids) -> ids] :
                     \A i, j \in 1..Cardinality(ids) : i < j =>
                         /\ o[i] # o[j]
                         /\ risk_metrics[o[i]].calculation_date
                                >= risk_metrics[o[j]].calculation_date}}

-----------------------------------------------------------------------------
(* The risk pipeline as a system *)

NextRisk ==
    \/ TriggerRiskCalculation
    \/ \E i \in Ids(risk_calls) : CalculateAssetRiskMetrics(i)
    \/ GetAssetRiskMetrics
    \/ GetTimescaleRiskMetrics

SpecRisk == Init /\ [][NextRisk]_vars

-----------------------------------------------------------------------------
(* The functions of the risk engine (app/services/analytics.py) *)

\* A return or a price is held as an integer number of units; a pandas
\* Series as the sequence of its values, NaN being NULL.  The statistics are
\* held as exact fractions [num, den].

MaxSeriesLen == 3       \* length of the series calculate_beta is given
ReturnValues == {-1, 0, 1}
SeriesUpTo(n) == UNION {[1..k -> ReturnValues] : k \in 0..n}

RECURSIVE Sum(_)
Sum(series) ==
    IF series = <<>> THEN 0 ELSE Head(series) + Sum(Tail(series))

Products(x, y) == [i \in 1..Len(x) |-> x[i] * y[i]]

\* Series.var() (ddof = 1), times n(n-1); NaN for fewer than 2 values
VarianceTimes(series) ==
    IF Len(series) < 2 THEN NULL
    ELSE Len(series) * Sum(Products(series, series)) - Sum(series) * Sum(series)

\* Series.cov(other) over the index the two series share, times m(m-1)
CovarianceTimes(x, y) ==
    LET m == IF Len(x) < Len(y) THEN Len(x) ELSE Len(y)
        xs == SubSeq(x, 1, m)
        ys == SubSeq(y, 1, m)
    IN m * Sum(Products(xs, ys)) - Sum(xs) * Sum(ys)

RaisedError(code) == [status |-> "raised", error_code |-> code]

\* (mutant) the length check letting a single point through
TooFewForBetaOffByOne(n) == n < 1

\* line 172: len(...) < 2
TooFewForBeta(n) == n < 2

\* lines 155-192.  Variance NaN is written NULL; the variance of the model is
\* never NULL past the length check.
calculate_beta(asset_returns, benchmark_returns) ==
    IF TooFewForBeta(Len(asset_returns)) \/ TooFewForBeta(Len(benchmark_returns))
    THEN RaisedError("INSUFFICIENT_DATA")
    ELSE LET benchmark_variance == VarianceTimes(benchmark_returns)
             n == Len(benchmark_returns)
             m == IF Len(asset_returns) < n THEN Len(asset_returns) ELSE n
         IN IF benchmark_variance = 0 \/ benchmark_variance = NULL
            THEN RaisedError("ZERO_VARIANCE")
            ELSE [status |-> "returned",
                  num |-> CovarianceTimes(asset_returns, benchmark_returns)
                              * n * (n - 1),
                  den |-> benchmark_variance * m * (m - 1)]

\* A behaviour of the engine is one call: the function is applied to
\* arguments drawn from the bounded sets, from the state without a call.
CalculateBeta ==
    \E asset_returns, benchmark_returns \in SeriesUpTo(MaxSeriesLen) :
        /\ engine.call = "none"
        /\ engine' = [call |-> "calculate_beta",
                      asset_returns |-> asset_returns,
                      benchmark_returns |-> benchmark_returns,
                      result |-> calculate_beta(asset_returns, benchmark_returns)]
        /\ UNCHANGED <<store_vars, risk_metrics, risk_calls, risk_response>>

-----------------------------------------------------------------------------
(* calculate_var_95 *)

MaxReturnsLen == 6      \* length of the series calculate_var_95 is given
SeriesBetween(lo, hi) == UNION {[1..k -> ReturnValues] : k \in lo..hi}

\* the series with value v put before the first greater value
RECURSIVE Insert(_, _)
Insert(sorted, v) ==
    IF sorted = <<>> THEN <<v>>
    ELSE IF v <= Head(sorted) THEN <<v>> \o sorted
    ELSE <<Head(sorted)>> \o Insert(Tail(sorted), v)

\* np.sort, as np.percentile applies it to its argument
RECURSIVE Sorted(_)
Sorted(series) ==
    IF series = <<>> THEN <<>> ELSE Insert(Sorted(Tail(series)), Head(series))

\* (mutant) method="lower": the order statistic below the virtual index,
\* without interpolation
PercentileLowerTimes20(series, q) ==
    LET lo == ((Len(series) - 1) * q) \div 100
    IN 20 * Sorted(series)[lo + 1]

\* np.percentile(series, q), default method "linear", for q a multiple of 5,
\* times 20: the value at the virtual index (n-1)q/100 of the sorted series,
\* interpolated between the order statistics on both sides of it
PercentileTimes20(series, q) ==
    LET sorted == Sorted(series)
        h20 == (Len(series) - 1) * (q \div 5)    \* the virtual index, times 20
        lo == h20 \div 20
        r == h20 % 20
    IN IF r = 0 THEN 20 * sorted[lo + 1]
       ELSE 20 * sorted[lo + 1] + r * (sorted[lo + 2] - sorted[lo + 1])

\* lines 195-223: float(np.percentile(returns, 5)) * 100
calculate_var_95(returns) ==
    IF Len(returns) < 5
    THEN RaisedError("INSUFFICIENT_DATA")
    ELSE [status |-> "returned",
          num |-> PercentileTimes20(returns, 5) * 100, den |-> 20]

CalculateVar95 ==
    \E returns \in SeriesBetween(MaxReturnsLen - 2, MaxReturnsLen) :
        /\ engine.call = "none"
        /\ engine' = [call |-> "calculate_var_95", returns |-> returns,
                      result |-> calculate_var_95(returns)]
        /\ UNCHANGED <<store_vars, risk_metrics, risk_calls, risk_response>>

-----------------------------------------------------------------------------
(* convert_prices_to_dataframe and prepare_returns_data *)

MaxWeeks == 3           \* weeks of the window the price lists lie in
DaysPerWeek == 7        \* resample_freq = "W"
ClosePrices == {10, 12}

\* the trade dates of the price lists, as day numbers from a Monday: the
\* first and the fourth day of each week
PriceDays == {DaysPerWeek * w + o : w \in 0..(MaxWeeks - 1), o \in {0, 3}}

\* a list of PriceHistory rows, one per trade date, as _fetch_prices_sync
\* returns it from a store with one current fact per date
PriceListOn(days, close) ==
    {[trade_date |-> d, close_price |-> close[d]] : d \in days}
PriceLists ==
    UNION {{PriceListOn(days, close) : close \in [days -> ClosePrices]} :
              days \in (SUBSET PriceDays) \ {{}}}

\* a benchmark quoted at 10 on the first day of every week
WeeklyBenchmark ==
    PriceListOn({DaysPerWeek * w : w \in 0..(MaxWeeks - 1)},
                [d \in 0..(DaysPerWeek * MaxWeeks) |-> 10])

\* lines 72-103: the DataFrame's "close" column, indexed by date and sorted
\* by it: a function of the dates the list has rows for
convert_prices_to_dataframe(prices) ==
    [d \in {p.trade_date : p \in prices} |->
        (CHOOSE p \in prices : p.trade_date = d).close_price]

\* Series.ffill(): a NaN value takes the last value before it that is not
\* NaN; the index is left as it is
ffill(series) ==
    [d \in DOMAIN series |->
        IF series[d] # NULL THEN series[d]
        ELSE LET known == {k \in DOMAIN series : k < d /\ series[k] # NULL}
             IN IF known = {} THEN NULL
                ELSE series[CHOOSE k \in known : \A j \in known : j <= k]]

WeekOf(d) == d \div DaysPerWeek

\* Series.resample("W").last(): one bin per week from the week of the first
\* index value to the week of the last; the last value of the bin that is
\* not NaN, NaN for a bin without one
resample_last(series) ==
    LET weeks == {WeekOf(d) : d \in DOMAIN series}
        first == CHOOSE w \in weeks : \A v \in weeks : w <= v
        last == CHOOSE w \in weeks : \A v \in weeks : v <= w
    IN [w \in first..last |->
           LET bin == {d \in DOMAIN series : WeekOf(d) = w /\ series[d] # NULL}
           IN IF bin = {} THEN NULL
              ELSE series[CHOOSE d \in bin : \A k \in bin : k <= d]]

NaN == [nan |-> TRUE, from |-> 0, to |-> 0]

\* np.log(weekly / weekly.shift(1)): the log return from one weekly price to
\* the next is held as the two prices; it is 0 when they are equal
log_returns(weekly) ==
    [w \in DOMAIN weekly |->
        IF (w - 1) \in DOMAIN weekly /\ weekly[w] # NULL /\ weekly[w - 1] # NULL
        THEN [nan |-> FALSE, from |-> weekly[w - 1], to |-> weekly[w]]
        ELSE NaN]

\* lines 106-152: the aligned weekly returns (pd.concat(join="inner").dropna())
prepare_returns_data(asset_df, benchmark_df) ==
    LET asset_returns == log_returns(resample_last(ffill(asset_df)))
        benchmark_returns == log_returns(resample_last(ffill(benchmark_df)))
        combined == {w \in (DOMAIN asset_returns) \cap (DOMAIN benchmark_returns) :
                        ~asset_returns[w].nan /\ ~benchmark_returns[w].nan}
    IN [asset |-> [w \in combined |-> asset_returns[w]],
        benchmark |-> [w \in combined |-> benchmark_returns[w]]]

PrepareReturnsData ==
    \E asset_prices \in PriceLists :
        \E benchmark_prices \in {WeeklyBenchmark, asset_prices} :
            /\ engine.call = "none"
            /\ engine' = [call |-> "prepare_returns_data",
                          asset_prices |-> asset_prices,
                          benchmark_prices |-> benchmark_prices,
                          result |-> prepare_returns_data(
                              convert_prices_to_dataframe(asset_prices),
                              convert_prices_to_dataframe(benchmark_prices))]
            /\ UNCHANGED <<store_vars, risk_metrics, risk_calls, risk_response>>

-----------------------------------------------------------------------------
(* calculate_risk_metrics_sync, step by step *)

\* the price lists a call can find: as Datasets, and with no row at all for
\* the asset or the benchmark
EngineDatasets ==
    [asset_points : {0, 13, 14}, benchmark_points : {0, 13, 14},
     observations : {9, 10}, zero_variance : BOOLEAN]

\* lines 441-483: the functions the call runs, in order, up to the one that
\* raises
StepsRun(ds) ==
    LET fetched == <<"_fetch_prices_sync", "_fetch_prices_sync",
                     "_validate_price_data">>
        prepared == fetched \o <<"convert_prices_to_dataframe",
                                 "convert_prices_to_dataframe",
                                 "prepare_returns_data">>
    IN IF validate_price_data(ds) # "" THEN fetched
       ELSE IF TooFewObservations(ds.observations) THEN prepared
       ELSE IF ds.zero_variance THEN prepared \o <<"calculate_beta">>
       ELSE prepared \o <<"calculate_beta", "calculate_var_95">>

CalculateRiskMetricsSync ==
    \E ds \in EngineDatasets :
        /\ engine.call = "none"
        /\ engine' = [call |-> "calculate_risk_metrics_sync", ds |-> ds,
                      steps |-> StepsRun(ds),
                      result |-> calculate_risk_metrics_sync(ds)]
        /\ UNCHANGED <<store_vars, risk_metrics, risk_calls, risk_response>>

-----------------------------------------------------------------------------
(* get_risk_metrics_hybrid on one content of the store *)

\* The SQL functions calculate_beta_sql and calculate_var_sql
\* (app/db/migrations/weekly_returns_view.sql) as the consistency requirement
\* has them: over the content of the store the per-record path reads as ds,
\* they count the aligned weekly observations the per-record path counts.
calculate_beta_sql(ds) == [observation_count |-> ds.observations]
calculate_var_sql(ds) == [observation_count |-> ds.observations]

\* what the TimescaleDB branch finds when the store holds ds
TimescaleOver(installed, ds) ==
    [installed |-> installed,
     beta_observations |-> calculate_beta_sql(ds).observation_count,
     var_observations |-> calculate_var_sql(ds).observation_count]

GetRiskMetricsHybrid ==
    \E ds \in Datasets, installed \in BOOLEAN :
        /\ engine.call = "none"
        /\ engine' = [call |-> "get_risk_metrics_hybrid", ds |-> ds,
                      installed |-> installed,
                      result |-> get_risk_metrics_hybrid(
                                     TimescaleOver(installed, ds), ds)]
        /\ UNCHANGED <<store_vars, risk_metrics, risk_calls, risk_response>>

-----------------------------------------------------------------------------
(* The engine's functions as a system *)

NextEngine ==
    \/ CalculateBeta
    \/ CalculateVar95
    \/ GetRiskMetricsHybrid
    \/ PrepareReturnsData
    \/ CalculateRiskMetricsSync

SpecEngine == Init /\ [][NextEngine]_vars

-----------------------------------------------------------------------------
(* Vocabulary of the properties *)

Range(table) == {table[i] : i \in Ids(table)}

\* the Open facts of a key: transaction_to = null
OpenHistory(table, a, d) ==
    {i \in Ids(table) : /\ table[i].asset_id = a
                        /\ table[i].trade_date = d
                        /\ table[i].transaction_to = NULL}
OpenMarket(table, t, d) ==
    {i \in Ids(table) : /\ table[i].security_ticker = t
                        /\ table[i].valid_from = d
                        /\ table[i].transaction_to = NULL}

\* the transaction interval [transaction_from, transaction_to) contains as_of
Contains(row, as_of) ==
    /\ row.transaction_from <= as_of
    /\ (row.transaction_to = NULL \/ as_of < row.transaction_to)

\* the prices the as-of-transaction query may return ({}: none)
AsOfHistoryPrices(table, a, d, as_of) ==
    {table[i].close_price : i \in AsOfTxIds(table, a, d, as_of)}
AsOfMarketPrices(table, t, d, as_of) ==
    {table[i].price : i \in PriceAsOfIds(table, t, d, as_of, as_of)}

\* worker w commits its correction in this step
CommitsCorrection(w) == pc[w] = "correct_commit" /\ pc'[w] = "idle"

-----------------------------------------------------------------------------
(* C1 *)

\* C1: for every (asset, business date) at most one fact has
\* transaction_to = null, in either table, after any sequence of ingestions,
\* corrections and scraper runs.
C1_AtMostOneOpenFact ==
    /\ \A a \in AssetIds, d \in Dates :
           Cardinality(OpenHistory(price_history, a, d)) <= 1
    /\ \A t \in Tickers, d \in Dates :
           Cardinality(OpenMarket(market_prices, t, d)) <= 1

-----------------------------------------------------------------------------
(* C2 *)

\* C2: two correct() calls running at once on one (asset, date) never leave
\* two Open facts, whatever the interleaving of their read-current, close,
\* append and commit steps: the commit of a correction, on a key that has at
\* most one Open fact, leaves at most one Open fact for the key.
C2_ConcurrentCorrectionsKeepOneOpen ==
    [][\A w \in Workers :
        (CommitsCorrection(w)
         /\ Cardinality(OpenHistory(price_history, loc[w].asset, loc[w].date)) <= 1)
        => Cardinality(OpenHistory(price_history', loc[w].asset, loc[w].date)) <= 1
      ]_vars

-----------------------------------------------------------------------------
(* C3 *)

\* C3: no look-ahead: for every key and every system time t already in the
\* past, no step changes the price the as-of-transaction query returns at t.
C3_NoLookAhead ==
    [][\A as_of \in Times : as_of < clock =>
        /\ \A a \in AssetIds, d \in Dates :
               AsOfHistoryPrices(price_history', a, d, as_of)
                   = AsOfHistoryPrices(price_history, a, d, as_of)
        /\ \A t \in Tickers, d \in Dates :
               AsOfMarketPrices(market_prices', t, d, as_of)
                   = AsOfMarketPrices(market_prices, t, d, as_of)
      ]_vars

-----------------------------------------------------------------------------
(* C4 *)

\* C4: round trip: when correct(a, d, new) succeeds, get_current(a, d)
\* returns the new value, and the as-of-transaction query at any t_before
\* earlier than the correction time returns what it returned before.
C4_CorrectRoundTrip ==
    [][\A w \in Workers : CommitsCorrection(w) =>
        LET a == loc[w].asset
            d == loc[w].date
            new == price_history'[Len(price_history')]
        IN /\ \A i \in CurrentIds(price_history', a, d) :
                  price_history'[i].close_price = new.close_price
           /\ \A t_before \in Times : t_before < loc[w].now =>
                  AsOfHistoryPrices(price_history', a, d, t_before)
                      = AsOfHistoryPrices(price_history, a, d, t_before)
      ]_vars

-----------------------------------------------------------------------------
(* C5 *)

\* C5: the as-of-transaction query returns a fact of the key whose
\* transaction interval contains as_of, and returns none exactly when the key
\* has no such fact; in price_history and in market_prices.
C5_AsOfReturnsContainingFact ==
    /\ \A a \in AssetIds, d \in Dates, as_of \in Times :
        \A r \in get_price_as_of_transaction_time(a, d, as_of) :
            IF r = 0
            THEN ~ \E f \in Range(price_history) :
                     f.asset_id = a /\ f.trade_date = d /\ Contains(f, as_of)
            ELSE /\ price_history[r].asset_id = a
                 /\ price_history[r].trade_date = d
                 /\ Contains(price_history[r], as_of)
    /\ \A t \in Tickers, d \in Dates, as_of \in Times :
        \A r \in get_price_as_of(t, d, as_of) :
            IF r = 0
            THEN ~ \E f \in Range(market_prices) :
                     f.security_ticker = t /\ f.valid_from = d /\ Contains(f, as_of)
            ELSE /\ market_prices[r].security_ticker = t
                 /\ market_prices[r].valid_from = d
                 /\ Contains(market_prices[r], as_of)

\* a superseded fact with a non-empty interval next to its open successor: the
\* query at the closing time must leave the first and return the second
C5_Witness ==
    \E i, j \in Ids(price_history) :
        /\ price_history[i].transaction_to # NULL
        /\ price_history[i].transaction_from < price_history[i].transaction_to
        /\ price_history[j].transaction_to = NULL
        /\ price_history[j].transaction_from = price_history[i].transaction_to
        /\ get_price_as_of_transaction_time(price_history[i].asset_id,
               price_history[i].trade_date, price_history[i].transaction_to) = {j}

-----------------------------------------------------------------------------
(* C6 *)

\* C6: no step changes the price, volume, valid-time fields or
\* transaction_from of an existing fact; the only change to an existing fact
\* is transaction_to going from null to a time.
C6_ExistingFactsNotMutated ==
    [][/\ \A i \in Ids(price_history) :
            /\ i \in Ids(price_history')
            /\ price_history'[i].close_price = price_history[i].close_price
            /\ price_history'[i].volume = price_history[i].volume
            /\ price_history'[i].trade_date = price_history[i].trade_date
            /\ price_history'[i].valid_from = price_history[i].valid_from
            /\ price_history'[i].valid_to = price_history[i].valid_to
            /\ price_history'[i].transaction_from = price_history[i].transaction_from
            /\ \/ price_history'[i].transaction_to = price_history[i].transaction_to
               \/ price_history[i].transaction_to = NULL
       /\ \A i \in Ids(market_prices) :
            /\ i \in Ids(market_prices')
            /\ market_prices'[i].price = market_prices[i].price
            /\ market_prices'[i].volume = market_prices[i].volume
            /\ market_prices'[i].valid_from = market_prices[i].valid_from
            /\ market_prices'[i].transaction_from = market_prices[i].transaction_from
            /\ \/ market_prices'[i].transaction_to = market_prices[i].transaction_to
               \/ market_prices[i].transaction_to = NULL
      ]_vars

-----------------------------------------------------------------------------
(* C7 *)

\* C7: facts are never deleted: every row stored before a step is stored
\* after it, under the same primary key and for the same (asset, date).
C7_FactsNeverDeleted ==
    [][/\ \A f \in Range(price_history) : \E g \in Range(price_history') :
            g.id = f.id /\ g.asset_id = f.asset_id /\ g.trade_date = f.trade_date
       /\ \A f \in Range(market_prices) : \E g \in Range(market_prices') :
            g.id = f.id /\ g.security_ticker = f.security_ticker
                        /\ g.valid_from = f.valid_from
      ]_vars

\* a correction has superseded a fact, and the superseded fact is still stored
C7_Witness ==
    \E f, g \in Range(price_history) :
        /\ f.transaction_to # NULL
        /\ g.id > f.id
        /\ g.transaction_from = f.transaction_to
        /\ g.trade_date = f.trade_date

-----------------------------------------------------------------------------
(* C8 *)

\* C8: monotonic closing: once transaction_to of a fact is set, no step
\* resets it to null or overwrites it with another time.
C8_MonotonicClosing ==
    [][/\ \A i \in Ids(price_history) :
            price_history[i].transaction_to # NULL =>
                /\ i \in Ids(price_history')
                /\ price_history'[i].transaction_to = price_history[i].transaction_to
       /\ \A i \in Ids(market_prices) :
            market_prices[i].transaction_to # NULL =>
                /\ i \in Ids(market_prices')
                /\ market_prices'[i].transaction_to = market_prices[i].transaction_to
      ]_vars

-----------------------------------------------------------------------------
(* C9 *)

\* C9: every stored fact whose transaction_to is set has
\* transaction_from < transaction_to, strictly.
C9_TransactionIntervalNonEmpty ==
    /\ \A f \in Range(price_history) :
           f.transaction_to # NULL => f.transaction_from < f.transaction_to
    /\ \A f \in Range(market_prices) :
           f.transaction_to # NULL => f.transaction_from < f.transaction_to

-----------------------------------------------------------------------------
(* C10 *)

\* C10: for every price_history fact is_current is true iff transaction_to is
\* null, so the current view (is_current) and the as-of view (transaction_to)
\* name the same Open facts of every key.
C10_IsCurrentIffOpen ==
    /\ \A f \in Range(price_history) :
           (f.is_current = TRUE) <=> (f.transaction_to = NULL)
    /\ \A a \in AssetIds, d \in Dates :
           CurrentIds(price_history, a, d) = OpenHistory(price_history, a, d)

\* a closed fact and an open fact of one key are stored
C10_Witness ==
    \E f, g \in Range(price_history) :
        /\ f.trade_date = g.trade_date
        /\ f.transaction_to # NULL /\ f.is_current = FALSE
        /\ g.transaction_to = NULL /\ g.is_current = TRUE

-----------------------------------------------------------------------------
(* C11 *)

\* worker w takes a step of its own handler
Steps(w) == pc'[w] # pc[w]

\* C11: correct(asset, date, ...) fails NotFound exactly when the key has no
\* current (Open) fact, and the failing call, from its lookup to the 404 it
\* ends with, leaves the store unchanged: nothing is closed, nothing appended.
C11_NotFoundLeavesStoreUnchanged ==
    [][\A w \in Workers :
        /\ (pc[w] = "idle" /\ pc'[w] \in {"value_error", "correct_stamp"}) =>
               (pc'[w] = "value_error"
                   <=> OpenHistory(price_history, loc'[w].asset, loc'[w].date) = {})
        /\ (Steps(w) /\ "value_error" \in {pc[w], pc'[w]}) =>
               /\ price_history' = price_history
               /\ market_prices' = market_prices
        /\ (Steps(w) /\ pc[w] = "value_error") => pc'[w] = "idle"
      ]_vars

\* a correction was refused for a date without a current fact while the
\* store holds facts of the asset for another date
C11_Witness ==
    \E w \in Workers :
        /\ pc[w] = "value_error"
        /\ OpenHistory(price_history, loc[w].asset, loc[w].date) = {}
        /\ \E f \in Range(price_history) :
               f.asset_id = loc[w].asset /\ f.trade_date # loc[w].date

-----------------------------------------------------------------------------
(* C12 *)

\* C12: the fact a successful correct() appends has the valid_from and
\* valid_to of its predecessor (the fact the call closes, as stored before
\* the commit), the predecessor's value in every field the request left
\* unspecified, transaction_from = now, the instant the predecessor is closed
\* at, and transaction_to = null.
C12_AppendedFactInherits ==
    [][\A w \in Workers : CommitsCorrection(w) =>
        LET pred == price_history[loc[w].id]
            closed == price_history'[loc[w].id]
            new == price_history'[Len(price_history')]
        IN /\ Len(price_history') = Len(price_history) + 1
           /\ new.valid_from = pred.valid_from
           /\ new.valid_to = pred.valid_to
           /\ new.asset_id = pred.asset_id
           /\ new.trade_date = pred.trade_date
           /\ \E c \in Corrections :
                 /\ new.close_price = c.close
                 /\ c.volume = NULL => new.volume = pred.volume
           /\ new.transaction_from = loc[w].now
           /\ closed.transaction_to = new.transaction_from
           /\ new.transaction_to = NULL
      ]_vars

\* a correction that left the volume unspecified has been committed after the
\* clock moved on from the predecessor's valid_from
C12_Witness ==
    \E i, j \in Ids(price_history) :
        /\ i < j
        /\ price_history[i].transaction_to = price_history[j].transaction_from
        /\ price_history[j].transaction_from > price_history[i].valid_from
        /\ price_history[j].valid_from = price_history[i].valid_from
        /\ price_history[j].close_price = 12
        /\ price_history[j].volume = price_history[i].volume

-----------------------------------------------------------------------------
(* C13 *)

\* C13: a correction is atomic.  In every step, a fact that goes from Open
\* to closed does so together with the append of an Open fact of its key (in
\* price_history stamped with the closing instant), and the commit of a
\* correction or of an ingestion over an existing fact shows both; a call
\* that fails after its lookup, and the session close that follows, leave
\* both tables as they were.
C13_CorrectionAtomic ==
    [][/\ \A i \in Ids(price_history) :
            (price_history[i].transaction_to = NULL
             /\ price_history'[i].transaction_to # NULL) =>
                LET new == price_history'[Len(price_history')]
                IN /\ Len(price_history') = Len(price_history) + 1
                   /\ new.asset_id = price_history[i].asset_id
                   /\ new.trade_date = price_history[i].trade_date
                   /\ new.transaction_to = NULL
                   /\ new.transaction_from = price_history'[i].transaction_to
       /\ \A i \in Ids(market_prices) :
            (market_prices[i].transaction_to = NULL
             /\ market_prices'[i].transaction_to # NULL) =>
                LET new == market_prices'[Len(market_prices')]
                IN /\ Len(market_prices') = Len(market_prices) + 1
                   /\ new.security_ticker = market_prices[i].security_ticker
                   /\ new.valid_from = market_prices[i].valid_from
                   /\ new.transaction_to = NULL
       /\ \A w \in Workers :
            /\ CommitsCorrection(w) =>
                  /\ Len(price_history') = Len(price_history) + 1
                  /\ price_history'[loc[w].id].transaction_to # NULL
            /\ (pc[w] = "ingest_commit" /\ pc'[w] = "idle" /\ loc[w].id # 0) =>
                  /\ Len(market_prices') = Len(market_prices) + 1
                  /\ market_prices'[loc[w].id].transaction_to # NULL
            /\ (Steps(w) /\ "failed" \in {pc[w], pc'[w]}) =>
                  /\ price_history' = price_history
                  /\ market_prices' = market_prices
      ]_vars

\* a correction failed after its lookup had found the fact, and the single Open
\* fact of its key is still the one it had read
C13_Witness ==
    \E w \in Workers :
        /\ pc[w] = "failed"
        /\ loc[w].op = "correct_price"
        /\ \E i \in Ids(price_history) :
               /\ OpenHistory(price_history, loc[w].asset, loc[w].date) = {i}
               /\ Len(price_history) = 1

-----------------------------------------------------------------------------
(* C14 *)

\* the corrections of an asset: the facts appended at the instant an earlier
\* fact of their date was closed
CorrectionIds(table, a) ==
    {j \in Ids(table) :
        /\ table[j].asset_id = a
        /\ \E i \in Ids(table) :
               /\ i < j
               /\ table[i].asset_id = a
               /\ table[i].trade_date = table[j].trade_date
               /\ table[i].transaction_to = table[j].transaction_from}

\* C14: get_corrections_audit(asset) answers with one entry per correction,
\* in non-decreasing transaction-time order, consecutive entries of one date
\* chained by old_close[i+1] = new_close[i], and leaves the store unchanged.
C14_AuditChain ==
    [][\A w \in Workers :
        (Steps(w) /\ loc'[w].op = "get_corrections_audit") =>
            LET r == loc'[w].response
                e == r.entries
            IN /\ r.status = 200
               /\ Len(e) = Cardinality(CorrectionIds(price_history, loc'[w].asset))
               /\ \A i \in 1..(Len(e) - 1) :
                      /\ e[i].corrected_at <= e[i + 1].corrected_at
                      /\ e[i].trade_date = e[i + 1].trade_date =>
                             e[i + 1].old_close_price = e[i].new_close_price
               /\ price_history' = price_history
               /\ market_prices' = market_prices
      ]_vars

-----------------------------------------------------------------------------
(* C15 *)

\* worker w commits its ingestion in this step
CommitsIngestion(w) == pc[w] = "ingest_commit" /\ pc'[w] = "idle"
\* the scraper stores a row in this step
Scrapes == Len(price_history') = Len(price_history) + 1 /\ pc' = pc

\* C15: an ingestion creates the first Open fact of (asset, business date)
\* when none is current and otherwise closes the current fact and appends a
\* new Open one; either way the current-view query for the key, run right
\* after the ingestion, returns the fact just ingested (MarketDataService
\* .ingest_price on market_prices, fetch_luse_prices on price_history).
C15_IngestThenCurrent ==
    [][/\ \A w \in Workers : CommitsIngestion(w) =>
            LET t == loc[w].ticker
                d == loc[w].date
                new == Len(market_prices')
            IN /\ new = Len(market_prices) + 1
               /\ \E q \in Quotes : market_prices'[new].price = q.price
               /\ \A i \in OpenMarket(market_prices, t, d) :
                      market_prices'[i].transaction_to # NULL
               /\ First(PriceAsOfIds(market_prices', t, d, NULL, clock')) = {new}
       /\ Scrapes =>
            LET new == Len(price_history')
                a == price_history'[new].asset_id
                d == price_history'[new].trade_date
            IN /\ \A i \in OpenHistory(price_history, a, d) :
                      price_history'[i].transaction_to # NULL
               /\ First(CurrentIds(price_history', a, d)) = {new}
      ]_vars

-----------------------------------------------------------------------------
(* C16 *)

\* the facts of (a, d) believed at as_of (NULL: now, the Open facts)
Believed(table, a, d, as_of) ==
    {i \in Ids(table) :
        /\ table[i].asset_id = a
        /\ table[i].trade_date = d
        /\ IF as_of = NULL THEN table[i].transaction_to = NULL
                           ELSE Contains(table[i], as_of)}

\* the list is ordered by business date and holds, for every date of
\* [start, end], the one fact believed at as_of when there is one and nothing
\* when there is none
OneFactPerDate(table, result, a, start, end, as_of) ==
    /\ \A i, j \in DOMAIN result : i < j =>
           table[result[i]].trade_date < table[result[j]].trade_date
    /\ \A i \in DOMAIN result :
           /\ table[result[i]].trade_date \in start..end
           /\ result[i] \in Believed(table, a, table[result[i]].trade_date, as_of)
    /\ \A d \in start..end :
           Believed(table, a, d, as_of) # {} =>
               \E i \in DOMAIN result : table[result[i]].trade_date = d

\* C16: get_range(asset, start, end, as_of_transaction?) returns the facts
\* ordered by business date, at most one per date of [start, end]: the fact
\* believed at as_of_transaction (the current fact when it is omitted) for
\* each date that has one, nothing for the other dates.
C16_RangeOneFactPerDate ==
    \A a \in AssetIds, start \in Dates, end \in Dates :
        /\ \A as_of \in Times \cup {NULL} :
               \A result \in get_price_history_range(a, start, end, as_of) :
                   OneFactPerDate(price_history, result, a, start, end, as_of)
        /\ \A result \in get_price_history(a, start, end) :
               OneFactPerDate(price_history, result, a, start, end, NULL)

-----------------------------------------------------------------------------
(* The risk pipeline: properties *)

HistoryLimit == 30      \* GET /risk/{asset_id}/history: limit = Query(30, ...)

\* the step stores exactly one snapshot, of asset a, "completed" or "failed"
\* with the reason in error_message
PersistsOneSnapshot(a) ==
    /\ Len(risk_metrics') = Len(risk_metrics) + 1
    /\ SubSeq(risk_metrics', 1, Len(risk_metrics)) = risk_metrics
    /\ LET row == risk_metrics'[Len(risk_metrics')]
       IN /\ row.asset_id = a
          /\ \/ row.calculation_status = "completed"
             \/ row.calculation_status = "failed" /\ row.error_message # ""

\* the step is the end of task instance i: it leaves the queue for good
TaskEnds(i) ==
    /\ risk_calls[i].state \in {"PENDING", "RETRY"}
    /\ risk_calls'[i].state \in {"SUCCESS", "FAILURE"}

\* the step is a call of a calculating endpoint
EndpointAnswers == risk_response' # risk_response

\* C17: every invocation of the risk calculation for an asset, a task
\* instance or a call of GET /risk/{asset_id}, persists exactly one snapshot
\* for the asset by the time it ends, completed or failed with a reason,
\* whatever made it fail.  (The runs a task instance repeats after
\* self.retry are counted as one invocation, which ends with its last run.)
C17_EveryInvocationPersists ==
    [][/\ \A i \in Ids(risk_calls) :
              TaskEnds(i) => PersistsOneSnapshot(risk_calls[i].asset_id)
       /\ (EndpointAnswers /\ risk_response'.endpoint = "get_asset_risk_metrics")
              => PersistsOneSnapshot(risk_response'.asset_id)]_vars

\* C18: no snapshot is stored as completed, and no per-record or hybrid call
\* answers with success, with fewer than 10 aligned weekly observations.
C18_CompletedHasTenObservations ==
    /\ \A i \in Ids(risk_metrics) :
           risk_metrics[i].calculation_status = "completed"
               => risk_metrics[i].observation_count >= 10
    /\ risk_response.endpoint # "none" /\ risk_response.status_code = 200
           => risk_response.result.observation_count >= 10

\* a task run was refused for INSUFFICIENT_OBSERVATIONS and another one
\* stored a completed snapshot
C18_Witness ==
    /\ \E i \in Ids(risk_metrics) :
           /\ risk_metrics[i].calculation_status = "failed"
           /\ risk_metrics[i].error_message = "INSUFFICIENT_OBSERVATIONS"
    /\ \E i \in Ids(risk_metrics) :
           /\ risk_metrics[i].calculation_status = "completed"
           /\ risk_metrics[i].observation_count >= 10

\* The three situations of an asset: a calculation stored a completed
\* snapshot; calculations ran and none did; no calculation has run.
Attempted(a) ==
    \/ \E i \in Ids(risk_metrics) : risk_metrics[i].asset_id = a
    \/ \E i \in Ids(risk_calls) :
           /\ risk_calls[i].asset_id = a
           /\ ~(risk_calls[i].state = "PENDING" /\ risk_calls[i].retries = 0)

Situation(a) ==
    IF CompletedIds(risk_metrics, a) # {} THEN "succeeded"
    ELSE IF Attempted(a) THEN "attempted_and_failed"
    ELSE "never_attempted"

\* what the read interface may return for the asset: an answer of
\* get_latest together with an answer of get_history
ReadAnswers(a) ==
    get_latest_risk_metrics(a) \X get_risk_metrics_history(a, HistoryLimit)

\* C19: two assets in different situations (never attempted, attempted and
\* all failed, at least one success) never get the same answers from the
\* read interface.
C19_ReadsTellSituations ==
    \A a, b \in RiskAssetIds :
        Situation(a) # Situation(b) => ReadAnswers(a) \cap ReadAnswers(b) = {}

\* C20: a task instance that keeps failing is run again at most MaxRetries
\* times, and the step in which it gives up stores a failed snapshot of the
\* asset.
C20_GivesUpWithFailedSnapshot ==
    [][\A i \in Ids(risk_calls) :
           /\ risk_calls'[i].retries <= MaxRetries
           /\ (risk_calls[i].state # "FAILURE" /\ risk_calls'[i].state = "FAILURE")
                  => /\ PersistsOneSnapshot(risk_calls[i].asset_id)
                     /\ risk_metrics'[Len(risk_metrics')].calculation_status
                            = "failed"]_vars

-----------------------------------------------------------------------------
(* The risk engine: properties *)

AllEqual(series) == \A i, j \in 1..Len(series) : series[i] = series[j]

\* the points calculate_beta can pair: those both series have
PairedPoints(x, y) == IF Len(x) < Len(y) THEN Len(x) ELSE Len(y)

OrderStatistic(series, k) ==
    CHOOSE v \in {series[i] : i \in 1..Len(series)} :
        /\ Cardinality({i \in 1..Len(series) : series[i] < v}) < k
        /\ Cardinality({i \in 1..Len(series) : series[i] <= v}) >= k

\* the empirical 5th percentile of a series of 2 to 20 values, times 20: the
\* point (n-1)/20 of the way from the smallest value to the second smallest
EmpiricalPercentile5Times20(series) ==
    20 * OrderStatistic(series, 1)
        + (Len(series) - 1)
              * (OrderStatistic(series, 2) - OrderStatistic(series, 1))

\* C22 as stated: for a series of at least 5 points VaR_95 is the negative of
\* the empirical 5th percentile of the series.
C22_VarIsNegatedPercentile ==
    engine.call = "calculate_var_95" /\ Len(engine.returns) >= 5 =>
        /\ engine.result.status = "returned"
        /\ engine.result.num * 20
               = (0 - EmpiricalPercentile5Times20(engine.returns))
                     * engine.result.den

\* C22 as amended: for a series of at least 5 points VaR_95 is the empirical
\* 5th percentile of the series taken as a percentage (times 100), so that a
\* loss in the left tail yields a negative VaR.
C22_VarIsPercentileInPercent ==
    engine.call = "calculate_var_95" /\ Len(engine.returns) >= 5 =>
        /\ engine.result.status = "returned"
        /\ engine.result.num * 20
               = 100 * EmpiricalPercentile5Times20(engine.returns)
                     * engine.result.den
        /\ OrderStatistic(engine.returns, 2) < 0 => engine.result.num < 0

\* calculate_var_95 was given five returns, two of them losses of different
\* size, and returned a negative value
C22_Witness ==
    /\ engine.call = "calculate_var_95"
    /\ Len(engine.returns) = 5
    /\ OrderStatistic(engine.returns, 1) < OrderStatistic(engine.returns, 2)
    /\ engine.result.status = "returned"
    /\ engine.result.num < 0

\* C23: on one content of the store the hybrid entry point returns what the
\* per-record path returns (the same outcome, with the same
\* observation_count), whichever of its two paths it ends up using.
C23_HybridAgreesWithPerRecord ==
    engine.call = "get_risk_metrics_hybrid" =>
        LET reference == calculate_risk_metrics_sync(engine.ds)
        IN /\ engine.result.status = reference.status
           /\ engine.result.observation_count = reference.observation_count

-----------------------------------------------------------------------------
(* Data quality of the store *)

PriceCeiling == 1000000     \* test_luse_prices_within_bounds: < 1_000_000

\* C24: every stored price_history fact has 0 < close_price < 1,000,000 and
\* a volume that is null or not negative, whichever writer stored it.
C24_PricesWithinBounds ==
    \A i \in Ids(price_history) :
        /\ price_history[i].close_price > 0
        /\ price_history[i].close_price < PriceCeiling
        /\ price_history[i].volume = NULL \/ price_history[i].volume >= 0

\* C25: every stored price_history fact has a trade_date and valid_from <=
\* transaction_from, in every state the writers reach, the facts stored by a
\* correction included.
C25_TimestampConsistency ==
    \A i \in Ids(price_history) :
        /\ price_history[i].trade_date # NULL
        /\ price_history[i].valid_from <= price_history[i].transaction_from

\* the close last known on day d: that of the latest row dated d or before
LastKnownClose(prices, d) ==
    LET known == {p \in prices : p.trade_date <= d}
    IN (CHOOSE p \in known : \A q \in known : q.trade_date <= p.trade_date).close_price

\* C26: before the weekly resampling every date of the daily grid between
\* the first and the last raw price has a close, the last one known; so every
\* week after the first has a weekly price and, against a benchmark quoted
\* every week, a return, which is 0 for a week without a raw price.
C26_ForwardFillOverDailyGrid ==
    engine.call = "prepare_returns_data" =>
        LET dates == {p.trade_date : p \in engine.asset_prices}
            first == CHOOSE d \in dates : \A k \in dates : d <= k
            last == CHOOSE d \in dates : \A k \in dates : k <= d
            filled == ffill(convert_prices_to_dataframe(engine.asset_prices))
        IN /\ \A d \in first..last :
                  /\ d \in DOMAIN filled
                  /\ filled[d] = LastKnownClose(engine.asset_prices, d)
           /\ engine.benchmark_prices = WeeklyBenchmark =>
                  \A w \in (WeekOf(first) + 1)..WeekOf(last) :
                      /\ w \in DOMAIN engine.result.asset
                      /\ (\A d \in dates : WeekOf(d) # w) =>
                             engine.result.asset[w].from = engine.result.asset[w].to

\* the error codes of a failure for want of raw price points
RawDataErrors ==
    {"NO_ASSET_DATA", "NO_BENCHMARK_DATA",
     "INSUFFICIENT_ASSET_DATA", "INSUFFICIENT_BENCHMARK_DATA"}

\* the steps that resample the prices or compute with the returns
ReturnSteps ==
    {"convert_prices_to_dataframe", "prepare_returns_data",
     "calculate_beta", "calculate_var_95"}

FewRawPoints(ds) == ds.asset_points < 14 \/ ds.benchmark_points < 14

\* C27: with fewer than 14 raw price points for the asset or for the
\* benchmark the calculation fails for want of raw data, without having run
\* any resampling or return step, and produces no metric.
C27_FewRawPointsFailBeforeResampling ==
    (engine.call = "calculate_risk_metrics_sync" /\ FewRawPoints(engine.ds)) =>
        /\ engine.result.status = "failed"
        /\ engine.result.error_code \in RawDataErrors
        /\ \A i \in 1..Len(engine.steps) : engine.steps[i] \notin ReturnSteps

C27_Witness ==
    /\ engine.call = "calculate_risk_metrics_sync"
    /\ engine.ds.asset_points = 14
    /\ engine.ds.benchmark_points = 13
    /\ engine.ds.observations = 10
    /\ ~engine.ds.zero_variance
    /\ engine.result.error_code = "INSUFFICIENT_BENCHMARK_DATA"

\* C28: for every key the transaction intervals [transaction_from,
\* transaction_to) of its facts are pairwise disjoint: at any as_of at most
\* one fact matches the as-of-transaction predicate, in either table, so
\* the query's first match is determined.
C28_AsOfMatchIsUnique ==
    \A as_of \in Times :
        /\ \A a \in AssetIds, d \in Dates :
               Cardinality(AsOfTxIds(price_history, a, d, as_of)) <= 1
        /\ \A t \in Tickers, d \in Dates :
               Cardinality(PriceAsOfIds(market_prices, t, d, as_of, as_of)) <= 1

\* the transaction_from values of the facts of a key
HistoryFroms(table, a, d) ==
    {table[i].transaction_from :
        i \in {j \in Ids(table) : table[j].asset_id = a /\ table[j].trade_date = d}}
MarketFroms(table, t, d) ==
    {table[i].transaction_from :
        i \in {j \in Ids(table) : table[j].security_ticker = t /\ table[j].valid_from = d}}

\* C29: the belief timeline of a key has no gap: at every as_of at or after
\* the transaction_from of the key's first fact the as-of-transaction query
\* returns some fact, in either table.
C29_NoGapInBeliefTimeline ==
    \A as_of \in Times :
        /\ \A a \in AssetIds, d \in Dates :
               (\E f \in HistoryFroms(price_history, a, d) : f <= as_of)
                   => 0 \notin get_price_as_of_transaction_time(a, d, as_of)
        /\ \A t \in Tickers, d \in Dates :
               (\E f \in MarketFroms(market_prices, t, d) : f <= as_of)
                   => 0 \notin First(PriceAsOfIds(market_prices, t, d, as_of, as_of))

\* C30: the fact a correction appends carries, in an optional field the
\* request specified, exactly the specified value, 0 included; only a field
\* the request left unspecified takes the predecessor's value.  (volume is
\* the optional field the rows carry; close identifies the request.)
C30_SpecifiedOptionalFieldIsStored ==
    [][\A w \in Workers : CommitsCorrection(w) =>
        LET pred == price_history[loc[w].id]
            new == price_history'[Len(price_history')]
        IN \E c \in Corrections :
               /\ new.close_price = c.close
               /\ c.volume # NULL => new.volume = c.volume
               /\ c.volume = NULL => new.volume = pred.volume
      ]_vars

====
